---- MODULE Spec2Model ----
(***************************************************************************)
(* LyCORIS, lycoris/kohya.py: the network module for kohya.                *)
(*                                                                         *)
(* A string is a sequence of one-character strings, so that the name       *)
(* flattening (str.replace) and the prefix tests (str.startswith) are      *)
(* computed character by character, as the code computes them.             *)
(* A host model (text_encoder, unet) is a torch module tree: a set of      *)
(* nodes [path, cls, k], path the sequence of child names from the root,   *)
(* cls the class name, k the first entry of kernel_size (Conv2d only).     *)
(* An optional argument is <<>> for None and <<v>> for the value v.        *)
(***************************************************************************)
EXTENDS Integers, Sequences, FiniteSets, TLC

\* ------------------------------------------------------------- bounds
\* nodes below the two roots of a host pair, in total
MaxNodes == 3
\* network_dim and conv_dim range over 0..MaxRank
MaxRank == 1
\* set_multiplier is called with 1..MaxMultiplier
MaxMultiplier == 2
\* no adapter is spliced in more than MaxApply times
MaxApply == 2
\* an optimizer step leaves a tensor at a content in 1..MaxWeight
MaxWeight == 2

\* ------------------------------------------------------------ strings
RECURSIVE Join(_)
\* '.'.join(path): the dotted name torch's named_modules yields
Join(path) ==
  IF path = <<>> THEN <<>>
  ELSE IF Len(path) = 1 THEN path[1]
  ELSE path[1] \o <<".">> \o Join(Tail(path))

\* str.replace(old, new) for one-character old and new
replace(s, old, new) == [i \in 1..Len(s) |-> IF s[i] = old THEN new ELSE s[i]]

\* str.startswith(prefix)
startswith(s, prefix) ==
  /\ Len(s) >= Len(prefix)
  /\ SubSeq(s, 1, Len(prefix)) = prefix

LORA_PREFIX_UNET == <<"l", "o", "r", "a", "_", "u", "n", "e", "t">>
LORA_PREFIX_TEXT_ENCODER == <<"l", "o", "r", "a", "_", "t", "e">>
UNET_TARGET_REPLACE_MODULE ==
  {"Transformer2DModel", "Attention", "ResnetBlock2D", "Downsample2D", "Upsample2D"}
TEXT_ENCODER_TARGET_REPLACE_MODULE == {"CLIPAttention", "CLIPMLP"}

\* ---------------------------------------------------------- host trees
\* the child names a host uses, in declaration order; torch forbids '.' in
\* a child name and allows '_'
ChildNames == << <<"a">>, <<"a", "_", "a">> >>
\* container classes of the hosts: one the text encoder's list targets, one
\* the U-Net's list targets
ContainerClasses == {"CLIPMLP", "Attention"}
LeafKinds ==
  { [cls |-> "Linear", k |-> 0], [cls |-> "Conv2d", k |-> 1], [cls |-> "Conv2d", k |-> 3] }
NodeKinds == LeafKinds \cup { [cls |-> c, k |-> 0] : c \in ContainerClasses }

Node(path, kind) == [path |-> path, cls |-> kind.cls, k |-> kind.k]
Paths(tree) == { nd.path : nd \in tree }
NodeAt(tree, path) == CHOOSE nd \in tree : nd.path = path

\* a container declares its children under the child names in order: its
\* next child takes the first name it has not used
NextChild(tree, p) ==
  LET free == { i \in 1..Len(ChildNames) : Append(p, ChildNames[i]) \notin Paths(tree) }
  IN  { Append(p, ChildNames[i]) : i \in { j \in free : \A l \in free : j <= l } }

\* the free child slots of the tree
FreeSlots(tree) ==
  UNION { NextChild(tree, p.path) : p \in { nd \in tree : nd.cls \in ContainerClasses } }

\* one more child under a container of the tree
Extensions(tree) ==
  { tree \cup {Node(path, kind)} : path \in FreeSlots(tree), kind \in NodeKinds }

RECURSIVE TreesOfSize(_)
\* the module trees with n nodes below the root
TreesOfSize(n) ==
  IF n = 0 THEN { {Node(<<>>, [cls |-> c, k |-> 0])} : c \in ContainerClasses }
  ELSE UNION { Extensions(t) : t \in TreesOfSize(n - 1) }

HostPairs ==
  UNION { TreesOfSize(nm[1]) \X TreesOfSize(nm[2]) :
            nm \in { x \in (0..MaxNodes) \X (0..MaxNodes) : x[1] + x[2] <= MaxNodes } }

RECURSIVE named_modules_from(_, _, _)
\* the paths of the subtree at path p, depth first in declaration order,
\* children from the i-th child name on
named_modules_from(tree, p, i) ==
  IF i > Len(ChildNames) THEN <<>>
  ELSE LET c == Append(p, ChildNames[i])
           here == IF c \in Paths(tree)
                   THEN <<c>> \o named_modules_from(tree, c, 1)
                   ELSE <<>>
       IN here \o named_modules_from(tree, p, i + 1)

\* torch.nn.Module.named_modules of the module at path p: itself first
named_modules(tree, p) == <<p>> \o named_modules_from(tree, p, 1)

\* ------------------------------------------------------------ adapters
None == <<>>
Some(v) == <<v>>

\* the names of an adapter's parameter tensors, by adapter class
param_names(cls) ==
  IF cls = "LoConModule" THEN <<"lora_down.weight", "lora_up.weight">>
  ELSE IF cls = "LohaModule" THEN <<"hada_w1_a", "hada_w1_b", "hada_w2_a", "hada_w2_b">>
  ELSE << >>

Range(seq) == { seq[i] : i \in 1..Len(seq) }

\* network_module(lora_name, org_module, multiplier, lora_dim, alpha, dropout):
\* a new adapter, detached (apply_to not yet called), its parameter tensors
\* at their initial content 0; ndim is the number of dimensions of its
\* tensors, 2 on a Linear and 4 on a Conv2d
new_module(cls, lora_name, org_module, ndim, multiplier, lora_dim, alpha) ==
  [ cls |-> cls, lora_name |-> lora_name, org_module |-> org_module,
    ndim |-> ndim, multiplier |-> multiplier, lora_dim |-> lora_dim,
    alpha |-> alpha, params |-> [a \in Range(param_names(cls)) |-> 0], applied |-> 0 ]

\* lines 115-116: prefix + '.' + name + '.' + child_name, '.' replaced by '_'
flat_name(prefix, name, child_name) ==
  replace(prefix \o <<".">> \o name \o <<".">> \o child_name, ".", "_")

\* lines 117-137: what create_modules decides for a child of a target
\* container: "lora" with self.lora_dim and self.alpha, "conv" with
\* self.conv_lora_dim and self.conv_alpha, "skip", or "TypeError" when the
\* comparison lora_dim > 0 is evaluated on None
leaf_policy(cls, k_size, lora_dim, conv_lora_dim) ==
  IF cls = "Linear"
  THEN IF lora_dim = None THEN "TypeError"
       ELSE IF lora_dim[1] > 0 THEN "lora" ELSE "skip"
  ELSE IF cls = "Conv2d"
  THEN IF k_size = 1 /\ lora_dim = None THEN "TypeError"
       ELSE IF k_size = 1 /\ lora_dim[1] > 0 THEN "lora"
       ELSE IF conv_lora_dim > 0 THEN "conv"
       ELSE "skip"
  ELSE "skip"

\* lines 115-138: the adapters (none or one) of one child of a target
\* container; a TypeError is reported as an adapter of class "TypeError"
child_loras(net, host, prefix, tree, name, child) ==
  LET nd == NodeAt(tree, child)
      child_name == SubSeq(child, Len(name) + 1, Len(child))
      lora_name == flat_name(prefix, Join(name), Join(child_name))
      org == [host |-> host, path |-> child]
      ndim == IF nd.cls = "Linear" THEN 2 ELSE 4
      what == leaf_policy(nd.cls, nd.k, net.lora_dim, net.conv_lora_dim)
  IN  IF what = "lora"
      THEN << new_module(net.network_module, lora_name, org, ndim,
                         net.multiplier, net.lora_dim[1], net.alpha[1]) >>
      ELSE IF what = "conv"
      THEN << new_module(net.network_module, lora_name, org, ndim,
                         net.multiplier, net.conv_lora_dim, net.conv_alpha) >>
      ELSE IF what = "TypeError"
      THEN << new_module("TypeError", lora_name, org, ndim, net.multiplier, 0, 0) >>
      ELSE << >>

RECURSIVE container_loras(_, _, _, _, _, _, _)
\* lines 114-138: the inner loop, over module.named_modules() from its
\* i-th entry on
container_loras(net, host, prefix, tree, name, children, i) ==
  IF i > Len(children) THEN << >>
  ELSE child_loras(net, host, prefix, tree, name, children[i])
       \o container_loras(net, host, prefix, tree, name, children, i + 1)

RECURSIVE root_loras(_, _, _, _, _, _, _)
\* lines 112-138: the outer loop, over root_module.named_modules() from its
\* i-th entry on
root_loras(net, host, prefix, tree, target_replace_modules, mods, i) ==
  IF i > Len(mods) THEN << >>
  ELSE LET name == mods[i]
           here == IF NodeAt(tree, name).cls \in target_replace_modules
                   THEN container_loras(net, host, prefix, tree, name,
                                        named_modules(tree, name), 1)
                   ELSE << >>
       IN here \o root_loras(net, host, prefix, tree, target_replace_modules, mods, i + 1)

\* lines 109-139
create_modules(net, host, prefix, root_module, target_replace_modules) ==
  root_loras(net, host, prefix, root_module, target_replace_modules,
             named_modules(root_module, << >>), 1)

\* lines 153-157: the assertion fails when a lora_name is met twice
duplicated_name(loras) ==
  \E i, j \in 1..Len(loras) : i < j /\ loras[i].lora_name = loras[j].lora_name

\* the adapter objects of the heap that a sequence of references holds
Objects(heap, refs) == [i \in 1..Len(refs) |-> heap[refs[i]]]

\* lines 91-106, 141-151: the fields of a LoRANetwork; weights_sd is None,
\* and torch's Module.__init__ leaves _modules empty
Controller(net, te_refs, unet_refs) ==
  [ multiplier |-> net.multiplier, lora_dim |-> net.lora_dim,
    conv_lora_dim |-> net.conv_lora_dim, alpha |-> net.alpha,
    conv_alpha |-> net.conv_alpha, network_module |-> net.network_module,
    text_encoder_loras |-> te_refs, unet_loras |-> unet_refs,
    weights_sd |-> None, modules |-> << >> ]

\* lines 82-157, LoRANetwork.__init__: the new controller, the adapter
\* objects it created, and the exception it raised ("None" when none)
LoRANetwork(te, un, multiplier, lora_dim, conv_lora_dim, alpha, conv_alpha, network_module) ==
  LET net == [ multiplier |-> multiplier, lora_dim |-> lora_dim,
               conv_lora_dim |-> conv_lora_dim, alpha |-> alpha,
               conv_alpha |-> conv_alpha, network_module |-> network_module ]
      te_loras == create_modules(net, "text_encoder", LORA_PREFIX_TEXT_ENCODER, te,
                                 TEXT_ENCODER_TARGET_REPLACE_MODULE)
      te_error == \E i \in 1..Len(te_loras) : te_loras[i].cls = "TypeError"
      unet_loras == create_modules(net, "unet", LORA_PREFIX_UNET, un,
                                   UNET_TARGET_REPLACE_MODULE)
      unet_error == \E i \in 1..Len(unet_loras) : unet_loras[i].cls = "TypeError"
  IN  IF te_error
      THEN [ self |-> Controller(net, << >>, << >>), heap |-> << >>, err |-> "TypeError" ]
      ELSE IF unet_error
      THEN [ self |-> Controller(net, [i \in 1..Len(te_loras) |-> i], << >>),
             heap |-> te_loras, err |-> "TypeError" ]
      ELSE [ self |-> Controller(net, [i \in 1..Len(te_loras) |-> i],
                                 [i \in 1..Len(unet_loras) |-> Len(te_loras) + i]),
             heap |-> te_loras \o unet_loras,
             err |-> IF duplicated_name(te_loras \o unet_loras)
                     THEN "AssertionError" ELSE "None" ]

\* ------------------------------------------------------------- weights
\* A weight dictionary is a sequence of entries with distinct keys, in the
\* dictionary's order. The key of an entry is name + '.' + attr; no name or
\* attr of the model holds the text 'alpha' or 'lora_down' but the attrs
\* "alpha" and "lora_down.weight", so the tests 'alpha' in key and
\* 'lora_down' in key are tests of attr, and key.startswith(prefix), the
\* prefix holding no '.', is a test of name.
Entry(name, attr, size, value) ==
  [ name |-> name, attr |-> attr, size |-> size, value |-> value ]

\* the size of an adapter's parameter tensors: their number of dimensions
\* and the rank, the one extent that is not the base layer's
param_size(m) == <<m.ndim, m.lora_dim>>
scalar == <<0, 0>>

RECURSIVE module_params(_, _)
\* the entries of the parameter tensors of adapter m, from the i-th on
module_params(m, i) ==
  IF i > Len(param_names(m.cls)) THEN << >>
  ELSE << Entry(m.lora_name, param_names(m.cls)[i], param_size(m),
                m.params[param_names(m.cls)[i]]) >>
       \o module_params(m, i + 1)

\* the state of one adapter: its parameters, then its alpha buffer
module_state(m) ==
  module_params(m, 1) \o << Entry(m.lora_name, "alpha", scalar, m.alpha) >>

RECURSIVE modules_state(_, _, _)
modules_state(heap, modules, i) ==
  IF i > Len(modules) THEN << >>
  ELSE module_state(heap[modules[i]]) \o modules_state(heap, modules, i + 1)

\* line 256, self.state_dict(): the state of the registered sub-modules, in
\* the order they were registered
state_dict(self_, heap) == modules_state(heap, self_.modules, 1)

\* the entries of sd under a key
Found(sd, name, attr) ==
  { i \in 1..Len(sd) : sd[i].name = name /\ sd[i].attr = attr }

\* an adapter after torch copied into it the entries of sd under its keys
\* whose size is its own
loaded_module(m, sd) ==
  LET fits(a, size) == { i \in Found(sd, m.lora_name, a) : sd[i].size = size }
      val(a, size, old) ==
        IF fits(a, size) = {} THEN old ELSE sd[CHOOSE i \in fits(a, size) : TRUE].value
  IN  [ m EXCEPT !.params = [a \in DOMAIN m.params |-> val(a, param_size(m), m.params[a])],
                 !.alpha = val("alpha", scalar, m.alpha) ]

\* torch reports an entry under a key of the adapter whose size is not the
\* parameter's
size_mismatch(m, sd) ==
  \/ \E a \in DOMAIN m.params :
       \E i \in Found(sd, m.lora_name, a) : sd[i].size # param_size(m)
  \/ \E i \in Found(sd, m.lora_name, "alpha") : sd[i].size # scalar

\* line 208, self.load_state_dict(self.weights_sd, False): every registered
\* sub-module takes the entries under its keys; a missing key and a key of
\* no sub-module are tolerated, a size mismatch raises once all are copied
load_state_dict(heap, modules, sd) ==
  [ heap |-> [r \in DOMAIN heap |->
                IF r \in Range(modules) THEN loaded_module(heap[r], sd) ELSE heap[r]],
    err |-> IF \E r \in Range(modules) : size_mismatch(heap[r], sd)
            THEN "RuntimeError" ELSE "None" ]

\* ---------------------------------------------------------- controller
\* if self.weights_sd: None and the empty dictionary are both false
truthy(weights_sd) == weights_sd # None /\ weights_sd[1] # << >>

\* lines 173-178
weights_has_text_encoder(sd) ==
  \E i \in 1..Len(sd) : startswith(sd[i].name, LORA_PREFIX_TEXT_ENCODER)
weights_has_unet(sd) ==
  \E i \in 1..Len(sd) :
    /\ ~startswith(sd[i].name, LORA_PREFIX_TEXT_ENCODER)
    /\ startswith(sd[i].name, LORA_PREFIX_UNET)

\* lines 172-190: the two flags apply_to goes on with, or the failed
\* assertion
resolve_flags(weights_sd, apply_text_encoder, apply_unet) ==
  IF truthy(weights_sd)
  THEN LET has_te == weights_has_text_encoder(weights_sd[1])
           has_unet == weights_has_unet(weights_sd[1])
       IN  IF apply_text_encoder # None /\ apply_text_encoder[1] # has_te
           THEN [ err |-> "AssertionError", te |-> FALSE, unet |-> FALSE ]
           ELSE IF apply_unet # None /\ apply_unet[1] # has_unet
           THEN [ err |-> "AssertionError", te |-> FALSE, unet |-> FALSE ]
           ELSE [ err |-> "None",
                  te |-> IF apply_text_encoder = None THEN has_te ELSE apply_text_encoder[1],
                  unet |-> IF apply_unet = None THEN has_unet ELSE apply_unet[1] ]
  ELSE IF apply_text_encoder = None \/ apply_unet = None
       THEN [ err |-> "AssertionError", te |-> FALSE, unet |-> FALSE ]
       ELSE [ err |-> "None", te |-> apply_text_encoder[1], unet |-> apply_unet[1] ]

\* enabled_loras without the clearing of lines 195 and 200
enabled_loras_never_cleared(flag, loras) == loras

\* lines 192-200: a partition whose flag is false is cleared
enabled_loras(flag, loras) == IF flag THEN loras ELSE << >>

\* line 203, lora.apply_to(): the adapter is spliced into its base layer
\* once more
spliced(m) == [ m EXCEPT !.applied = @ + 1 ]

RECURSIVE add_modules(_, _, _)
\* line 204, self.add_module(lora.lora_name, lora), for the references refs
\* from the i-th on: a sub-module already registered keeps its place
add_modules(modules, refs, i) ==
  IF i > Len(refs) THEN modules
  ELSE add_modules(IF refs[i] \in Range(modules) THEN modules
                   ELSE Append(modules, refs[i]), refs, i + 1)

\* apply_to with the text encoder's partition cleared (line 195) ahead of the
\* assertions of lines 183-190
apply_to_clearing_first(self_, heap, apply_text_encoder, apply_unet) ==
  LET flags == resolve_flags(self_.weights_sd, apply_text_encoder, apply_unet)
      te_first == IF apply_text_encoder = Some(FALSE) THEN << >>
                  ELSE self_.text_encoder_loras
      te_loras == enabled_loras(flags.te, self_.text_encoder_loras)
      unet_loras == enabled_loras(flags.unet, self_.unet_loras)
      refs == te_loras \o unet_loras
      heap1 == [r \in DOMAIN heap |->
                  IF r \in Range(refs) THEN spliced(heap[r]) ELSE heap[r]]
      self1 == [ self_ EXCEPT !.text_encoder_loras = te_loras,
                              !.unet_loras = unet_loras,
                              !.modules = add_modules(self_.modules, refs, 1) ]
      loaded == load_state_dict(heap1, self1.modules, self_.weights_sd[1])
  IN  IF flags.err # "None"
      THEN [ self |-> [ self_ EXCEPT !.text_encoder_loras = te_first ],
             heap |-> heap, err |-> flags.err ]
      ELSE IF truthy(self_.weights_sd)
      THEN [ self |-> self1, heap |-> loaded.heap, err |-> loaded.err ]
      ELSE [ self |-> self1, heap |-> heap1, err |-> "None" ]

\* lines 171-209, LoRANetwork.apply_to
apply_to(self_, heap, apply_text_encoder, apply_unet) ==
  LET flags == resolve_flags(self_.weights_sd, apply_text_encoder, apply_unet)
      te_loras == enabled_loras(flags.te, self_.text_encoder_loras)
      unet_loras == enabled_loras(flags.unet, self_.unet_loras)
      refs == te_loras \o unet_loras
      heap1 == [r \in DOMAIN heap |->
                  IF r \in Range(refs) THEN spliced(heap[r]) ELSE heap[r]]
      self1 == [ self_ EXCEPT !.text_encoder_loras = te_loras,
                              !.unet_loras = unet_loras,
                              !.modules = add_modules(self_.modules, refs, 1) ]
      loaded == load_state_dict(heap1, self1.modules, self_.weights_sd[1])
  IN  IF flags.err # "None"
      THEN [ self |-> self_, heap |-> heap, err |-> flags.err ]
      ELSE IF truthy(self_.weights_sd)
      THEN [ self |-> self1, heap |-> loaded.heap, err |-> loaded.err ]
      ELSE [ self |-> self1, heap |-> heap1, err |-> "None" ]

\* set_multiplier with the loop of line 161 over text_encoder_loras alone
set_multiplier_text_encoder_only(self_, heap, value) ==
  [ self |-> [ self_ EXCEPT !.multiplier = value ],
    heap |-> [r \in DOMAIN heap |->
                IF r \in Range(self_.text_encoder_loras)
                THEN [ heap[r] EXCEPT !.multiplier = value ] ELSE heap[r]] ]

\* lines 159-162, LoRANetwork.set_multiplier
set_multiplier(self_, heap, value) ==
  [ self |-> [ self_ EXCEPT !.multiplier = value ],
    heap |-> [r \in DOMAIN heap |->
                IF r \in Range(self_.text_encoder_loras \o self_.unet_loras)
                THEN [ heap[r] EXCEPT !.multiplier = value ] ELSE heap[r]] ]

\* lines 164-169, LoRANetwork.load_weights: the dictionary read from the file
load_weights(self_, sd) == [ self_ EXCEPT !.weights_sd = Some(sd) ]

\* lora.parameters(): the parameter tensors of the adapter at reference r
parameters(heap, r) ==
  [i \in 1..Len(param_names(heap[r].cls)) |-> <<r, param_names(heap[r].cls)[i]>>]

RECURSIVE enumerate_params(_, _, _)
\* lines 220-224, for the adapters of loras from the i-th on
enumerate_params(heap, loras, i) ==
  IF i > Len(loras) THEN << >>
  ELSE parameters(heap, loras[i]) \o enumerate_params(heap, loras, i + 1)

\* param_group with lines 231 and 237 testing the truth of the learning
\* rate (if lr:), so that a rate of 0 is left out
param_group_truthy_lr(heap, loras, lr) ==
  IF loras # << >>
  THEN << [ params |-> enumerate_params(heap, loras, 1),
            lr |-> IF lr = Some(0) THEN None ELSE lr ] >>
  ELSE << >>

\* lines 229-233 and 235-239: the group of one partition; the group holds
\* 'lr' when lr is a value and does not when lr is None
param_group(heap, loras, lr) ==
  IF loras # << >>
  THEN << [ params |-> enumerate_params(heap, loras, 1), lr |-> lr ] >>
  ELSE << >>

\* lines 219-241, LoRANetwork.prepare_optimizer_params
prepare_optimizer_params(self_, heap, text_encoder_lr, unet_lr) ==
  param_group(heap, self_.text_encoder_loras, text_encoder_lr)
  \o param_group(heap, self_.unet_loras, unet_lr)

\* line 261, v.to(dtype): the narrower type holds the even values only
to_dtype(v, dtype) == IF dtype = None THEN v ELSE v - (v % 2)

\* lines 252-276, LoRANetwork.save_weights: the dictionary written
save_weights(self_, heap, dtype) ==
  LET sd == state_dict(self_, heap)
  IN  [i \in 1..Len(sd) |-> [ sd[i] EXCEPT !.value = to_dtype(@, dtype) ]]

\* ----------------------------------------------------------- factories
DefaultNetworkDim == 4
DefaultConvLoraDim == 4
DefaultConvAlpha == 1

\* lines 24-27
network_module_of(algo) == IF algo = "lora" THEN "LoConModule" ELSE "LohaModule"

\* lines 17-39, create_network; kwargs holds conv_dim, conv_alpha and algo,
\* each None when the caller leaves it out
create_network(multiplier, network_dim, network_alpha, te, un, kwargs) ==
  LET dim == IF network_dim = None THEN DefaultNetworkDim ELSE network_dim[1]
      conv_dim == IF kwargs.conv_dim = None THEN dim ELSE kwargs.conv_dim[1]
      conv_alpha == IF kwargs.conv_alpha = None THEN network_alpha
                    ELSE kwargs.conv_alpha[1]
      algo == IF kwargs.algo = None THEN "lora" ELSE kwargs.algo[1]
  IN  LoRANetwork(te, un, multiplier, Some(dim), conv_dim, Some(network_alpha),
                  conv_alpha, network_module_of(algo))

\* lines 50-56: the value of the first key holding 'alpha', the leading
\* extent of the first two-dimensional tensor under a key holding 'lora_down'
first_alpha(sd) ==
  LET at == { i \in 1..Len(sd) : sd[i].attr = "alpha" }
  IN  IF at = {} THEN None ELSE Some(sd[CHOOSE i \in at : \A j \in at : i <= j].value)
first_dim(sd) ==
  LET at == { i \in 1..Len(sd) : sd[i].attr = "lora_down.weight" /\ sd[i].size[1] = 2 }
  IN  IF at = {} THEN None ELSE Some(sd[CHOOSE i \in at : \A j \in at : i <= j].size[2])

\* lines 42-63, create_network_from_weights, on the dictionary the file holds
create_network_from_weights(multiplier, weights_sd, te, un) ==
  LET network_dim == first_dim(weights_sd)
      network_alpha == IF first_alpha(weights_sd) = None THEN network_dim
                       ELSE first_alpha(weights_sd)
      made == LoRANetwork(te, un, multiplier, network_dim, DefaultConvLoraDim,
                          network_alpha, DefaultConvAlpha, "LoConModule")
  IN  [ made EXCEPT !.self.weights_sd = Some(weights_sd) ]

\* ---------------------------------------------------------------- state
VARIABLES
  pc,            \* "new": no controller yet; "created": built by
                 \* create_network; "restored": built by
                 \* create_network_from_weights; "failed": the factory raised
  text_encoder,  \* the host module trees
  unet,
  self,          \* the LoRANetwork
  lora,          \* the adapter objects, by reference
  err,           \* the exception the last call raised, "None" when none
  ret,           \* what the last call returned
  call,          \* the last call and its arguments
  file,          \* the weight file save_weights wrote, None before
  origin         \* the adapters of the controller that wrote the file

vars == <<pc, text_encoder, unet, self, lora, err, ret, call, file, origin>>

NoNetwork ==
  [ multiplier |-> 0, lora_dim |-> None, conv_lora_dim |-> 0, alpha |-> None,
    conv_alpha |-> 0, network_module |-> "", text_encoder_loras |-> << >>,
    unet_loras |-> << >>, weights_sd |-> None, modules |-> << >> ]

InitWith(hosts) ==
  /\ pc = "new"
  /\ \E h \in hosts : text_encoder = h[1] /\ unet = h[2]
  /\ self = NoNetwork
  /\ lora = << >>
  /\ err = "None"
  /\ ret = << >>
  /\ call = [ op |-> "", args |-> << >> ]
  /\ file = None
  /\ origin = [ pc |-> "new", dtype |-> None, applied |-> FALSE, loras |-> << >> ]

\* the optional rank arguments
DimArgs == {None} \cup { Some(d) : d \in 0..MaxRank }

\* ------------------------------------------------------------- discovery
\* the arguments of create_network the discovery is run with
DiscoveryArgs ==
  [ multiplier : {1}, network_dim : DimArgs \ {None}, network_alpha : {1},
    kwargs : [ conv_dim : DimArgs \ {None}, conv_alpha : {Some(2)}, algo : {None} ] ]

\* the trainer calls create_network on the hosts
CreateNetwork(Args) ==
  /\ pc = "new"
  /\ \E a \in Args :
       LET made == create_network(a.multiplier, a.network_dim, a.network_alpha,
                                  text_encoder, unet, a.kwargs)
       IN  /\ self' = made.self
           /\ lora' = made.heap
           /\ err' = made.err
           /\ pc' = IF made.err = "None" THEN "created" ELSE "failed"
           /\ call' = [ op |-> "create_network", args |-> a ]
  /\ ret' = << >>
  /\ UNCHANGED <<text_encoder, unet, file, origin>>

InitDiscovery == InitWith(HostPairs)
NextDiscovery == CreateNetwork(DiscoveryArgs)
SpecDiscovery == InitDiscovery /\ [][NextDiscovery]_vars

\* ------------------------------------------------------------- lifecycle
\* a text encoder with no target container, and one with a CLIPMLP of one
\* Linear; a U-Net with a ResnetBlock2D of a 3x3 convolution and a Linear
TextEncoderBare == { Node(<< >>, [cls |-> "CLIPTextModel", k |-> 0]) }
TextEncoderMLP ==
  { Node(<< >>, [cls |-> "CLIPTextModel", k |-> 0]),
    Node(<< ChildNames[1] >>, [cls |-> "CLIPMLP", k |-> 0]),
    Node(<< ChildNames[1], ChildNames[1] >>, [cls |-> "Linear", k |-> 0]) }
UNetResnet ==
  { Node(<< >>, [cls |-> "UNet2DConditionModel", k |-> 0]),
    Node(<< ChildNames[1] >>, [cls |-> "ResnetBlock2D", k |-> 0]),
    Node(<< ChildNames[1], ChildNames[1] >>, [cls |-> "Conv2d", k |-> 3]),
    Node(<< ChildNames[1], ChildNames[2] >>, [cls |-> "Linear", k |-> 0]) }
LifecycleHosts == { <<TextEncoderBare, UNetResnet>>, <<TextEncoderMLP, UNetResnet>> }

\* the names discovery gives the adapters of these hosts
NameTE == flat_name(LORA_PREFIX_TEXT_ENCODER, ChildNames[1], ChildNames[1])
NameUNetConv == flat_name(LORA_PREFIX_UNET, ChildNames[1], ChildNames[1])
NameUNetLinear == flat_name(LORA_PREFIX_UNET, ChildNames[1], ChildNames[2])

\* weight files of other runs: an empty one, one of a key of neither
\* partition, one of each partition alone, and one of both with a key no
\* adapter has; the tensors are of rank 1
FileEmpty == << >>
FileForeign == << Entry(<<"x">>, "alpha", scalar, 1) >>
FileTE == << Entry(NameTE, "lora_up.weight", <<2, 1>>, 1) >>
FileUNet ==
  << Entry(NameUNetLinear, "lora_down.weight", <<2, 1>>, 1),
     Entry(NameUNetConv, "alpha", scalar, 2) >>
FileBoth == FileTE \o FileUNet \o FileForeign
WeightFiles == { FileEmpty, FileForeign, FileTE, FileUNet, FileBoth }

Multipliers == 1..MaxMultiplier
Flags == { None, Some(TRUE), Some(FALSE) }
LearningRates == { None, Some(0), Some(1) }

LifecycleArgs ==
  [ multiplier : Multipliers, network_dim : DimArgs, network_alpha : {1},
    kwargs : [ conv_dim : {None}, conv_alpha : {None}, algo : {None} ] ]

Alive == pc \in {"created", "restored"}

SetMultiplier ==
  /\ Alive
  /\ \E v \in Multipliers :
       LET done == set_multiplier(self, lora, v)
       IN  /\ self' = done.self
           /\ lora' = done.heap
           /\ call' = [ op |-> "set_multiplier", args |-> <<v>> ]
  /\ err' = "None"
  /\ ret' = << >>
  /\ UNCHANGED <<pc, text_encoder, unet, file, origin>>

\* the file read is one of another run or the one save_weights wrote
LoadWeights ==
  /\ Alive
  /\ \E sd \in WeightFiles \cup Range(file) :
       /\ self' = load_weights(self, sd)
       /\ call' = [ op |-> "load_weights", args |-> <<sd>> ]
  /\ err' = "None"
  /\ ret' = << >>
  /\ UNCHANGED <<pc, text_encoder, unet, lora, file, origin>>

ApplyTo ==
  /\ Alive
  /\ \A r \in DOMAIN lora : lora[r].applied < MaxApply
  /\ \E apply_text_encoder \in Flags, apply_unet \in Flags :
       LET done == apply_to(self, lora, apply_text_encoder, apply_unet)
       IN  /\ self' = done.self
           /\ lora' = done.heap
           /\ err' = done.err
           /\ call' = [ op |-> "apply_to", args |-> <<apply_text_encoder, apply_unet>> ]
  /\ ret' = << >>
  /\ UNCHANGED <<pc, text_encoder, unet, file, origin>>

PrepareOptimizerParams ==
  /\ Alive
  /\ \E text_encoder_lr \in LearningRates, unet_lr \in LearningRates :
       /\ ret' = prepare_optimizer_params(self, lora, text_encoder_lr, unet_lr)
       /\ call' = [ op |-> "prepare_optimizer_params",
                    args |-> <<text_encoder_lr, unet_lr>> ]
  /\ err' = "None"
  /\ UNCHANGED <<pc, text_encoder, unet, self, lora, file, origin>>

Init == InitWith(LifecycleHosts)
Next ==
  \/ CreateNetwork(LifecycleArgs)
  \/ SetMultiplier
  \/ LoadWeights
  \/ ApplyTo
  \/ PrepareOptimizerParams
Spec == Init /\ [][Next]_vars

\* ------------------------------------------------------------ round trip
RoundTripArgs ==
  [ multiplier : {1}, network_dim : DimArgs, network_alpha : {1},
    kwargs : [ conv_dim : {None, Some(1)}, conv_alpha : {None, Some(2)},
               algo : {None, Some("loha")} ] ]

Applied(refs) ==
  \A r \in Range(refs) : lora[r].applied > 0 /\ r \in Range(self.modules)

\* an optimizer step on the parameters of the adapters spliced in
OptimizerStep ==
  /\ Alive
  /\ self.text_encoder_loras \o self.unet_loras # << >>
  /\ Applied(self.text_encoder_loras \o self.unet_loras)
  /\ \E v \in 1..MaxWeight :
       /\ lora' = [r \in DOMAIN lora |->
                     IF r \in Range(self.text_encoder_loras \o self.unet_loras)
                     THEN [ lora[r] EXCEPT !.params = [a \in DOMAIN @ |-> v] ]
                     ELSE lora[r]]
       /\ call' = [ op |-> "optimizer_step", args |-> <<v>> ]
  /\ err' = "None"
  /\ ret' = << >>
  /\ UNCHANGED <<pc, text_encoder, unet, self, file, origin>>

\* save_weights writes the file; origin keeps the adapters that were saved
SaveWeights ==
  /\ Alive
  /\ \E dtype \in { None, Some("float16") } :
       /\ file' = Some(save_weights(self, lora, dtype))
       /\ call' = [ op |-> "save_weights", args |-> <<dtype>> ]
       /\ origin' = [ pc |-> pc, dtype |-> dtype,
                      applied |-> Applied(self.text_encoder_loras \o self.unet_loras),
                      loras |-> Objects(lora, self.text_encoder_loras \o self.unet_loras) ]
  /\ err' = "None"
  /\ ret' = << >>
  /\ UNCHANGED <<pc, text_encoder, unet, self, lora>>

\* the trainer calls create_network_from_weights on the file written
CreateNetworkFromWeights ==
  /\ pc = "created"
  /\ \E sd \in Range(file) :
       LET made == create_network_from_weights(1, sd, text_encoder, unet)
       IN  /\ self' = made.self
           /\ lora' = made.heap
           /\ err' = made.err
           /\ pc' = IF made.err = "None" THEN "restored" ELSE "failed"
           /\ call' = [ op |-> "create_network_from_weights", args |-> <<1>> ]
  /\ ret' = << >>
  /\ UNCHANGED <<text_encoder, unet, file, origin>>

NextRoundTrip ==
  \/ CreateNetwork(RoundTripArgs)
  \/ ApplyTo
  \/ OptimizerStep
  \/ SaveWeights
  \/ CreateNetworkFromWeights
SpecRoundTrip == Init /\ [][NextRoundTrip]_vars

\* ------------------------------------------------------ lifecycle claims
Owned == Range(self.text_encoder_loras \o self.unet_loras)
Discovered(host) == { r \in DOMAIN lora : lora[r].org_module.host = host }
LastCall(op) == call.op = op

\* whether pending_weights has been set, and what its keys say of the
\* partitions
PendingPresent == self.weights_sd # None
PendingHas(prefix) ==
  /\ PendingPresent
  /\ \E i \in 1..Len(self.weights_sd[1]) : startswith(self.weights_sd[1][i].name, prefix)
Disagrees(flag, prefix) == flag # None /\ flag[1] # PendingHas(prefix)

\* C3, as claimed: apply fails on its assertion exactly when pending_weights
\* has been set and a given flag differs from the presence its keys show, or
\* pending_weights is absent and a flag is not given. (apply_to leaves
\* pending_weights as it was, so the state after the call shows it.)
C3_ApplyFailsExactly ==
  LastCall("apply_to") =>
    ( err = "AssertionError" <=>
        IF PendingPresent
        THEN \/ Disagrees(call.args[1], LORA_PREFIX_TEXT_ENCODER)
             \/ Disagrees(call.args[2], LORA_PREFIX_UNET)
        ELSE call.args[1] = None \/ call.args[2] = None )

\* the flag apply goes on with: the one given, else the presence inferred
Effective(flag, prefix) == IF flag = None THEN PendingHas(prefix) ELSE flag[1]

\* what C4 says of one partition after a successful apply
PartitionApplied(flag, host, before, after) ==
  IF flag
  THEN /\ after = before
       /\ \A i \in 1..Len(after) :
            lora'[after[i]].applied = 1 /\ after[i] \in Range(self'.modules)
  ELSE /\ after = << >>
       /\ \A r \in Discovered(host) :
            lora'[r].applied = 0 /\ r \notin Range(self'.modules)

AppliedAsClaimed ==
  /\ PartitionApplied(Effective(call'.args[1], LORA_PREFIX_TEXT_ENCODER), "text_encoder",
                      self.text_encoder_loras, self'.text_encoder_loras)
  /\ PartitionApplied(Effective(call'.args[2], LORA_PREFIX_UNET), "unet",
                      self.unet_loras, self'.unet_loras)

\* C4, as claimed: after any successful apply a partition whose flag is
\* false is empty and none of its adapters is spliced in or registered, and
\* a partition whose flag is true is unchanged, each adapter spliced in
\* exactly once and registered.
C4_AnyApply ==
  [][ (call'.op = "apply_to" /\ err' = "None") => AppliedAsClaimed ]_vars

NothingSplicedYet ==
  /\ self.modules = << >>
  /\ \A r \in DOMAIN lora : lora[r].applied = 0

\* C4, amended: the same, of a successful apply on a controller none of
\* whose adapters has been spliced in or registered yet.
C4_FirstApply ==
  [][ (call'.op = "apply_to" /\ err' = "None" /\ NothingSplicedYet) => AppliedAsClaimed ]_vars

\* C4's case: apply succeeded with the U-Net's partition disabled; the text
\* encoder's adapters are spliced in once, the U-Net's adapters are not
C4_Witness ==
  /\ LastCall("apply_to") /\ err = "None"
  /\ call.args[2] = Some(FALSE)
  /\ self.unet_loras = << >> /\ self.text_encoder_loras # << >>
  /\ \A r \in Discovered("text_encoder") : lora[r].applied = 1
  /\ Discovered("unet") # {}
  /\ \A r \in Discovered("unet") : lora[r].applied = 0

\* C6: set_multiplier(v) leaves the controller's multiplier and that of
\* every adapter of both sequences at v, and in every state every adapter
\* the controller owns has the controller's multiplier.
C6_MultiplierPropagated ==
  /\ Alive => \A r \in Owned : lora[r].multiplier = self.multiplier
  /\ LastCall("set_multiplier") =>
       /\ self.multiplier = call.args[1]
       /\ \A r \in Owned : lora[r].multiplier = call.args[1]

\* C6's case: after load_weights and a successful apply, set_multiplier has
\* moved the multiplier of a controller that owns adapters of both
\* partitions, while a cleared adapter keeps another multiplier
C6_Witness ==
  /\ LastCall("set_multiplier") /\ self.multiplier = 2
  /\ PendingPresent
  /\ self.unet_loras # << >>
  /\ \E r \in Owned : lora[r].applied > 0
  /\ \E r \in DOMAIN lora : r \notin Owned /\ lora[r].multiplier = 1

\* the parameter tensors of the adapters of a sequence
ParamsOf(loras) == { <<r, a>> : r \in Range(loras), a \in { "lora_down.weight", "lora_up.weight" } }

\* C8: prepare_optimizer_params returns one group per partition whose
\* sequence is not empty, the text encoder's first; a group holds exactly
\* the parameters of its partition's adapters, and 'lr' exactly when the
\* learning rate given is not None.
C8_ParamGroups ==
  LastCall("prepare_optimizer_params") =>
    LET te == self.text_encoder_loras
        un == self.unet_loras
        n_te == IF te = << >> THEN 0 ELSE 1
        n_un == IF un = << >> THEN 0 ELSE 1
        Group(g, loras, lr) ==
          /\ Range(g.params) = ParamsOf(loras)
          /\ Len(g.params) = Cardinality(ParamsOf(loras))
          /\ g.lr = lr
    IN  /\ Len(ret) = n_te + n_un
        /\ n_te = 1 => Group(ret[1], te, call.args[1])
        /\ n_un = 1 => Group(ret[n_te + 1], un, call.args[2])

\* C8's case: two groups, the first with no 'lr', the second with the
\* learning rate 0
C8_Witness ==
  /\ LastCall("prepare_optimizer_params")
  /\ Len(ret) = 2
  /\ ret[1].lr = None /\ ret[2].lr = Some(0)

\* C10: an apply that stops on an assertion leaves the adapter sequences,
\* pending_weights, the registered sub-modules and every adapter as they
\* were.
C10_FailedApplyChangesNothing ==
  [][ (call'.op = "apply_to" /\ err' = "AssertionError") => UNCHANGED <<self, lora>> ]_vars

\* C10's case: apply was told to disable the text encoder, whose partition
\* holds adapters, and stopped on the U-Net's flag
C10_Witness ==
  /\ LastCall("apply_to") /\ err = "AssertionError"
  /\ call.args[1] = Some(FALSE)
  /\ self.text_encoder_loras # << >>
  /\ PendingPresent

\* the entries of pending_weights under the keys of adapter r
Mapped(r, a) ==
  { i \in 1..Len(self.weights_sd[1]) :
      self.weights_sd[1][i].name = lora[r].lora_name /\ self.weights_sd[1][i].attr = a }

\* no tensor of pending_weights has another size than the parameter it is
\* keyed to: the mapping differs from the adapters in key coverage alone
SizesFit ==
  \A r \in DOMAIN lora : \A a \in DOMAIN lora[r].params :
    \A i \in Mapped(r, a) : self.weights_sd[1][i].size = param_size(lora[r])

\* every adapter left takes the values mapped to its keys and keeps the
\* parameters whose keys are missing; no other adapter changes
LoadedByCoverage ==
  /\ \A r \in Owned' : \A a \in DOMAIN lora[r].params :
       IF Mapped(r, a) = {}
       THEN lora'[r].params[a] = lora[r].params[a]
       ELSE \E i \in Mapped(r, a) : lora'[r].params[a] = self.weights_sd[1][i].value
  /\ \A r \in DOMAIN lora \ Owned' : lora'[r] = lora[r]

\* C7, as claimed, of the first apply of a controller: with pending_weights
\* present and no given flag contradicting it, apply succeeds whatever keys
\* the mapping covers, every adapter left taking the values under its keys
\* and keeping the parameters whose keys are missing.
C7_AnyCoverage ==
  [][ ( /\ call'.op = "apply_to"
        /\ NothingSplicedYet
        /\ PendingPresent
        /\ ~Disagrees(call'.args[1], LORA_PREFIX_TEXT_ENCODER)
        /\ ~Disagrees(call'.args[2], LORA_PREFIX_UNET)
        /\ SizesFit )
      => (err' = "None" /\ LoadedByCoverage) ]_vars

\* ------------------------------------------------------ discovery claims
IsPrefix(p, q) == Len(p) <= Len(q) /\ SubSeq(q, 1, Len(p)) = p
Targets(tree, list) == { nd.path : nd \in { n \in tree : n.cls \in list } }
Nested(tree, list) ==
  \E p \in Targets(tree, list), q \in Targets(tree, list) : p # q /\ IsPrefix(p, q)
AllLoras == Objects(lora, self.text_encoder_loras \o self.unet_loras)
NamesOf(refs) == { lora[r].lora_name : r \in Range(refs) }

\* C1, as claimed: when no target container lies inside another, the
\* construction does not raise the duplicated-name fault, the names of the
\* adapters are pairwise distinct and the two partitions share no name.
C1_NamesDistinct ==
  ( /\ LastCall("create_network")
    /\ ~Nested(text_encoder, TEXT_ENCODER_TARGET_REPLACE_MODULE)
    /\ ~Nested(unet, UNET_TARGET_REPLACE_MODULE) )
  => /\ err # "AssertionError"
     /\ \A i, j \in 1..Len(AllLoras) :
          i # j => AllLoras[i].lora_name # AllLoras[j].lora_name
     /\ NamesOf(self.text_encoder_loras) \cap NamesOf(self.unet_loras) = {}

\* the adapters created on the layer at a path of a host
LorasOn(host, path) ==
  { r \in DOMAIN lora : lora[r].org_module = [host |-> host, path |-> path] }

\* what C2 says of the Conv2d leaves of one host
ConvPolicy(host, tree, list) ==
  \A nd \in tree : \A t \in Targets(tree, list) :
    (nd.cls = "Conv2d" /\ IsPrefix(t, nd.path)) =>
      IF nd.k = 1 /\ self.lora_dim[1] > 0
      THEN /\ LorasOn(host, nd.path) # {}
           /\ \A r \in LorasOn(host, nd.path) :
                lora[r].lora_dim = self.lora_dim[1] /\ lora[r].alpha = self.alpha[1]
      ELSE IF nd.k # 1 /\ self.conv_lora_dim > 0
      THEN /\ LorasOn(host, nd.path) # {}
           /\ \A r \in LorasOn(host, nd.path) :
                lora[r].lora_dim = self.conv_lora_dim /\ lora[r].alpha = self.conv_alpha
      ELSE LorasOn(host, nd.path) = {}

\* C2, as claimed: a Conv2d leaf under a target container gets an adapter
\* of the base rank and alpha when its kernel size is 1 and the base rank
\* is positive, an adapter of the conv rank and alpha when its kernel size
\* is not 1 and the conv rank is positive, and no adapter otherwise.
C2_ConvPolicy ==
  LastCall("create_network") =>
    /\ ConvPolicy("text_encoder", text_encoder, TEXT_ENCODER_TARGET_REPLACE_MODULE)
    /\ ConvPolicy("unet", unet, UNET_TARGET_REPLACE_MODULE)

\* a leaf the policy adapts: a Linear or a 1x1 convolution with a positive
\* base rank, a larger convolution with a positive conv rank
Qualifies(nd) ==
  \/ nd.cls = "Linear" /\ self.lora_dim[1] > 0
  \/ nd.cls = "Conv2d" /\ nd.k = 1 /\ self.lora_dim[1] > 0
  \/ nd.cls = "Conv2d" /\ nd.k # 1 /\ self.conv_lora_dim > 0

\* the leaves that qualify and lie under a target container that lies
\* under another target container
TwiceTraversed(tree, list) ==
  { nd \in tree :
      /\ Qualifies(nd)
      /\ \E p \in Targets(tree, list), q \in Targets(tree, list) :
           p # q /\ IsPrefix(p, q) /\ IsPrefix(q, nd.path) }

\* what C9 says of one host
NestedCollides(host, tree, list, prefix) ==
  \A nd \in TwiceTraversed(tree, list) :
    /\ err = "AssertionError"
    /\ pc = "failed"
    /\ \E i, j \in 1..Len(AllLoras) :
         /\ i # j
         /\ AllLoras[i].lora_name = AllLoras[j].lora_name
         /\ AllLoras[i].lora_name = flat_name(prefix, Join(nd.path), << >>)
         /\ AllLoras[i].org_module = [host |-> host, path |-> nd.path]
         /\ AllLoras[j].org_module = [host |-> host, path |-> nd.path]

RoundTripBegun ==
  /\ origin.pc = "created" /\ origin.applied /\ origin.loras # << >>
  /\ origin.dtype = None
  /\ \A i \in 1..Len(origin.loras) : origin.loras[i].cls = "LoConModule"
  /\ \/ pc = "failed" /\ LastCall("create_network_from_weights")
     \/ pc = "restored" /\ LastCall("apply_to") /\ call.args = <<None, None>>

\* the controller has an adapter of the name, rank, alpha, variant and
\* parameter tensors of o
Restored(o) ==
  \E r \in Owned :
    /\ lora[r].lora_name = o.lora_name
    /\ lora[r].lora_dim = o.lora_dim
    /\ lora[r].alpha = o.alpha
    /\ lora[r].cls = o.cls
    /\ lora[r].params = o.params

\* C5, as claimed, in the case of algo 'lora' and no cast: save_weights,
\* create_network_from_weights on the file and apply yield a controller of
\* the same adapter names, each of the same rank, alpha, variant and
\* parameter tensors.
C5_RoundTrip ==
  RoundTripBegun =>
    /\ err = "None"
    /\ \A i \in 1..Len(origin.loras) : Restored(origin.loras[i])
    /\ NamesOf(self.text_encoder_loras \o self.unet_loras)
         = { origin.loras[i].lora_name : i \in 1..Len(origin.loras) }

====
